---- MODULE Spec2Model ----
(***************************************************************************)
(* create-sparkvite: the interactive scaffolding CLI of src/sparkvite.js.  *)
(*                                                                         *)
(* main() is a single sequential run: prompts, the overwrite check, then   *)
(* one try block of external commands (execSync) and file-system writes,   *)
(* with a catch block that rolls the project directory back.  The model    *)
(* follows the statements of main() in source order; pc is the position of *)
(* the run, events is the history of every external command invoked and    *)
(* every file-system mutation performed, and the remaining variables are   *)
(* the part of the disk the tool writes.                                   *)
(*                                                                         *)
(* External commands are black boxes: only their exit status is modelled   *)
(* (plus the scaffold creating the project directory).  What they leave in *)
(* package.json / tsconfig*.json is drawn from ManifestTexts, TsConfigTexts*)
(* and TsConfigAppTexts at the moment main() first reads the file.         *)
(*                                                                         *)
(* Spec is the whole run.  SpecGate is the start of main() over a wide     *)
(* range of Node.js releases; SpecPatch is the tsconfig.app.json patch on  *)
(* the characters of the file, where Spec only records whether a text      *)
(* carries comments.                                                       *)
(***************************************************************************)
EXTENDS Integers, Sequences, FiniteSets, TLC

VARIABLES
    nodeVersion,  \* process.version, as its sequence of characters (line 32)
    pc,           \* position of main(): versionCheck/prompt/overwrite, a step of StepOrder, catch/exited
    answers,      \* the inquirer answers (lines 39-119)
    overwrite,    \* the answer to the overwrite prompt: "unasked", "yes" or "no"
    dir,          \* projectPath on disk: "absent", "old" (pre-existing contents) or "new"
    files,        \* paths under projectPath written by this tool and present on disk
    dirs,         \* directories under projectPath/src created by this tool
    packageJson,  \* text of package.json as last read/written by this tool
    tsConfig,     \* text of tsconfig.json as last read/written by this tool
    tsConfigApp,  \* text of tsconfig.app.json as last read/written by this tool
    orig,         \* history: the text each JSON file had when this tool first read it
    mainFile,     \* content of src/main.{tsx,jsx} written by this tool
    readme,       \* content of README.md written by this tool
    events,       \* history: commands invoked and file-system mutations, in order
    error,        \* the exception that left the try block: "none", "command", "fs" or "syntax"
    exitCode,     \* process exit code, meaningful when pc = "exited"
    source,       \* a tsconfig.app.json on disk, as its sequence of members and comments
    patched       \* what lines 267-271 make of source: the file written, or a throw

vars == <<nodeVersion, pc, answers, overwrite, dir, files, dirs, packageJson, tsConfig,
          tsConfigApp, orig, mainFile, readme, events, error, exitCode, source, patched>>

(***************************************************************************)
(* JSON values.  An object is a function from its keys to tagged values.   *)
(***************************************************************************)
Str(s) == [t |-> "str", v |-> s]
Arr(a) == [t |-> "arr", v |-> a]
Obj(o) == [t |-> "obj", v |-> o]
EmptyObj == [k \in {} |-> Str("")]

Has(o, k) == k \in DOMAIN o

\* o[k] = v on a JavaScript object: adds the key or overwrites its value.
Put(o, k, v) == [x \in (DOMAIN o) \cup {k} |-> IF x = k THEN v ELSE o[x]]

\* o.k || {} for a key holding an object or missing.
ObjOrEmpty(o, k) == IF Has(o, k) /\ o[k].t = "obj" THEN o[k].v ELSE EmptyObj

(***************************************************************************)
(* File texts.  A JSON file on disk is its parsed value plus whether the   *)
(* text carries comments (/* */ or //) around it.  No enumerated text that *)
(* carries comments has a comment delimiter inside a key or string value.  *)
(***************************************************************************)
Text(c, val) == [exists |-> TRUE, comments |-> c, value |-> val]
NoFile == [exists |-> FALSE, comments |-> FALSE, value |-> EmptyObj]

Ok(val) == [ok |-> TRUE, value |-> val]
Throw == [ok |-> FALSE, value |-> EmptyObj]

\* fs.readFileSync + JSON.parse: ENOENT on a missing file, SyntaxError on comments.
JSONParse(text) ==
    IF text.exists /\ ~text.comments THEN Ok(text.value) ELSE Throw

\* What a failed read-and-parse throws: ENOENT from readFileSync, SyntaxError from JSON.parse.
ErrorOf(text) == IF text.exists THEN "syntax" ELSE "fs"

\* JSON.stringify(value, null, 2): pure JSON, never a comment.
JSONStringify(val) == Text(FALSE, val)

\* Lines 10-14 on such a text: both regex replacements remove its comments
\* (stripJsonCommentsOf below, for a text without comment delimiters in strings).
stripJsonComments(text) == [text EXCEPT !.comments = FALSE]

(***************************************************************************)
(* The same two functions on the characters of a file.  A text is a        *)
(* sequence of one-character strings.                                      *)
(***************************************************************************)
NL == "\n"
Quote == "\""

DropTo(s, i) == SubSeq(s, i, Len(s))

\* The first index i >= from with s[i] = a and s[i + 1] = b, or 0.
RECURSIVE Find2(_, _, _, _)
Find2(s, a, b, from) ==
    IF from + 1 > Len(s) THEN 0
    ELSE IF s[from] = a /\ s[from + 1] = b THEN from
    ELSE Find2(s, a, b, from + 1)

\* The first index i >= from with s[i] a line terminator, or Len(s) + 1.
RECURSIVE EndOfLine(_, _)
EndOfLine(s, from) ==
    IF from > Len(s) \/ s[from] = NL THEN from ELSE EndOfLine(s, from + 1)

\* Line 11: str.replace(/\/\*[\s\S]*?\*\//g, '').  Scanning left to right, every
\* "/*" that has a "*/" after it is removed up to and including the first such
\* "*/", wherever in the text it stands.
RECURSIVE StripBlockComments(_)
StripBlockComments(s) ==
    IF Len(s) < 2 THEN s
    ELSE IF s[1] = "/" /\ s[2] = "*" /\ Find2(s, "*", "/", 3) # 0
    THEN StripBlockComments(DropTo(s, Find2(s, "*", "/", 3) + 2))
    ELSE <<s[1]>> \o StripBlockComments(Tail(s))

\* Line 12: str.replace(/\/\/.*$/gm, '').  Every "//" is removed together with
\* the rest of its line; the line terminator stays.
RECURSIVE StripLineComments(_)
StripLineComments(s) ==
    IF Len(s) < 2 THEN s
    ELSE IF s[1] = "/" /\ s[2] = "/"
    THEN StripLineComments(DropTo(s, EndOfLine(s, 3)))
    ELSE <<s[1]>> \o StripLineComments(Tail(s))

\* Lines 10-14 on characters.
stripJsonCommentsOf(str) == StripLineComments(StripBlockComments(str))

\* JSON.parse on characters, for the JSON built from objects and strings without
\* escapes; white space is the blank and the line terminator.  Any other text
\* is a SyntaxError.
Fail == [ok |-> FALSE, value |-> Str(""), next |-> 0]
Parsed(val, i) == [ok |-> TRUE, value |-> val, next |-> i]

RECURSIVE SkipSpace(_, _)
SkipSpace(s, i) ==
    IF i <= Len(s) /\ s[i] \in {" ", NL} THEN SkipSpace(s, i + 1) ELSE i

\* The string whose opening quote precedes s[i]; acc is what was read of it.
RECURSIVE ScanString(_, _, _)
ScanString(s, i, acc) ==
    IF i > Len(s) \/ s[i] = NL THEN Fail
    ELSE IF s[i] = Quote THEN Parsed(acc, i + 1)
    ELSE ScanString(s, i + 1, acc \o s[i])

RECURSIVE ParseValue(_, _)
RECURSIVE ParseMembers(_, _, _)
ParseValue(s, i) ==
    LET j == SkipSpace(s, i)
    IN  IF j > Len(s) THEN Fail
        ELSE IF s[j] = Quote
        THEN LET r == ScanString(s, j + 1, "")
             IN  IF r.ok THEN Parsed(Str(r.value), r.next) ELSE Fail
        ELSE IF s[j] = "{"
        THEN LET k == SkipSpace(s, j + 1)
             IN  IF k <= Len(s) /\ s[k] = "}" THEN Parsed(Obj(EmptyObj), k + 1)
                 ELSE ParseMembers(s, k, EmptyObj)
        ELSE Fail

\* The members of an object from s[i] on, the first character of a member; acc
\* holds the members read so far.  A repeated key keeps its last value.
ParseMembers(s, i, acc) ==
    IF i > Len(s) \/ s[i] # Quote THEN Fail
    ELSE LET key == ScanString(s, i + 1, "")
             c == SkipSpace(s, key.next)
             val == ParseValue(s, c + 1)
             d == SkipSpace(s, val.next)
             obj == Put(acc, key.value, val.value)
         IN  IF ~key.ok \/ c > Len(s) \/ s[c] # ":" THEN Fail
             ELSE IF ~val.ok \/ d > Len(s) THEN Fail
             ELSE IF s[d] = "}" THEN Parsed(Obj(obj), d + 1)
             ELSE IF s[d] = "," THEN ParseMembers(s, SkipSpace(s, d + 1), obj)
             ELSE Fail

\* JSON.parse(str) as line 267 uses its result: an object whose properties are
\* then assigned.  Text after the value is a SyntaxError; a value that is not an
\* object makes the property assignment of line 268 throw in module code.
JSONParseOf(str) ==
    LET r == ParseValue(str, 1)
    IN  IF r.ok /\ SkipSpace(str, r.next) > Len(str) /\ r.value.t = "obj"
        THEN Ok(r.value.v) ELSE Throw

(***************************************************************************)
(* Answers (lines 39-124).                                                 *)
(***************************************************************************)
ProjectNames == {"demo"}
PackageManagers == {"npm", "yarn", "pnpm", "bun"}
Languages == {"JavaScript", "TypeScript"}
UiLibraries == {"None", "ShadCN UI"}
StateManagements == {"None", "Context API", "Zustand", "Redux"}

Answers ==
    [projectName : ProjectNames, packageManager : PackageManagers,
     language : Languages, uiLibrary : UiLibraries,
     stateManagement : StateManagements, testing : BOOLEAN, linting : BOOLEAN,
     git : BOOLEAN, router : BOOLEAN, pwa : BOOLEAN]

\* The prompt defaults: the value of answers before the prompts are answered.
DefaultAnswers ==
    [projectName |-> "", packageManager |-> "npm", language |-> "TypeScript",
     uiLibrary |-> "None", stateManagement |-> "None", testing |-> TRUE,
     linting |-> TRUE, git |-> TRUE, router |-> TRUE, pwa |-> FALSE]

isTS(a) == a.language = "TypeScript"
template(a) == IF isTS(a) THEN "react-ts" ELSE "react"
projectPath(a) == "/cwd/" \o a.projectName
ext(a) == IF isTS(a) THEN "tsx" ELSE "jsx"
storeExt(a) == IF isTS(a) THEN "ts" ELSE "js"

(***************************************************************************)
(* Command strings.                                                        *)
(***************************************************************************)
createCmd(a) ==
    IF a.packageManager = "npm"
    THEN "npm create vite@latest " \o a.projectName \o " -- --template " \o template(a)
    ELSE a.packageManager \o " create vite " \o a.projectName \o " --template " \o template(a)

getInstallCmd(a, pkgs, isDev) ==
    LET pm == a.packageManager
        verb == IF pm = "npm" THEN "install " ELSE "add "
        flag == IF ~isDev THEN "" ELSE IF pm = "bun" THEN "-d " ELSE "-D "
    IN  (pm \o " ") \o verb \o flag \o pkgs

runScriptCmd(a) == IF a.packageManager = "npm" THEN "npm run" ELSE a.packageManager

lintDeps(a) ==
    "eslint prettier eslint-config-prettier eslint-plugin-react eslint-plugin-react-hooks"
    \o (IF isTS(a) THEN " @typescript-eslint/eslint-plugin @typescript-eslint/parser" ELSE "")

InProject(a, cmd) == "cd " \o a.projectName \o " && " \o cmd
InProjectPath(a, cmd) == "cd " \o projectPath(a) \o " && " \o cmd

\* The command string each command step hands to execSync.
CommandOf(step, a) ==
    CASE step = "create" -> createCmd(a)
      [] step = "baseInstall" -> InProject(a, a.packageManager \o " install")
      [] step = "tailwind" -> InProject(a, getInstallCmd(a, "tailwindcss @tailwindcss/vite", FALSE))
      [] step = "router" -> InProject(a, getInstallCmd(a, "react-router-dom", FALSE))
      [] step = "shadcnDeps" ->
            InProject(a, getInstallCmd(a, "class-variance-authority clsx tailwind-merge", FALSE))
      [] step = "zustand" -> InProject(a, getInstallCmd(a, "zustand", FALSE))
      [] step = "redux" -> InProject(a, getInstallCmd(a, "@reduxjs/toolkit react-redux", FALSE))
      [] step = "reduxTypes" -> InProject(a, getInstallCmd(a, "@types/react-redux", TRUE))
      [] step = "testingDeps" ->
            InProject(a, getInstallCmd(a,
                "vitest @testing-library/react @testing-library/jest-dom jsdom", TRUE))
      [] step = "lintingDeps" -> InProject(a, getInstallCmd(a, lintDeps(a), TRUE))
      [] step = "pwa" -> InProject(a, getInstallCmd(a, "vite-plugin-pwa", TRUE))
      [] step = "typesNode" -> InProject(a, getInstallCmd(a, "@types/node", TRUE))
      [] step = "gitInit" -> InProjectPath(a, "git init")
      [] step = "gitCommit" ->
            InProjectPath(a, "git add . && git commit -m \"Initial commit with SparkVite setup\"")
      [] step = "shadcnInit" -> InProjectPath(a, "npx shadcn@latest init")
      [] step = "shadcnAdd" -> InProjectPath(a, "npx shadcn@latest add button")

(***************************************************************************)
(* Control flow of the try block (lines 172-487): the statements in source *)
(* order, and the condition under which each one runs.                     *)
(***************************************************************************)
\* The statements with the git block moved to the end of the try block.
StepOrder_CommitLast ==
    << "create", "baseInstall", "tailwind", "router", "shadcnDeps",
       "zustand", "redux", "reduxTypes", "testingDeps", "lintingDeps", "pwa",
       "configureTailwind", "tsconfig", "typesNode", "tsconfigApp", "jsconfig",
       "lintSetup", "testSetup", "folders", "starterFiles", "shadcnInit", "shadcnAdd",
       "env", "readme", "gitInit", "gitignore", "gitCommit" >>

StepOrder ==
    << "create", "baseInstall", "tailwind", "router", "shadcnDeps",
       "zustand", "redux", "reduxTypes", "testingDeps", "lintingDeps", "pwa",
       "configureTailwind", "tsconfig", "typesNode", "tsconfigApp", "jsconfig",
       "lintSetup", "testSetup", "gitInit", "gitignore", "gitCommit",
       "folders", "starterFiles", "shadcnInit", "shadcnAdd", "env", "readme" >>

Applies(step, a) ==
    CASE step = "router" -> a.router
      [] step = "shadcnDeps" -> a.uiLibrary = "ShadCN UI"
      [] step = "zustand" -> a.stateManagement = "Zustand"
      [] step = "redux" -> a.stateManagement = "Redux"
      [] step = "reduxTypes" -> a.stateManagement = "Redux" /\ isTS(a)
      [] step = "testingDeps" -> a.testing
      [] step = "lintingDeps" -> a.linting
      [] step = "pwa" -> a.pwa
      [] step \in {"tsconfig", "typesNode", "tsconfigApp"} -> isTS(a)
      [] step = "jsconfig" -> ~isTS(a)
      [] step = "lintSetup" -> a.linting
      [] step = "testSetup" -> a.testing
      [] step \in {"gitInit", "gitignore", "gitCommit"} -> a.git
      [] step \in {"shadcnInit", "shadcnAdd"} -> a.uiLibrary = "ShadCN UI"
      [] OTHER -> TRUE

IndexOf(step) == CHOOSE i \in 1..Len(StepOrder) : StepOrder[i] = step

\* The statement that runs after `step` completes: the next one whose condition
\* holds; after the last one main() returns.
After(step, a) ==
    LET later == {i \in (IndexOf(step) + 1)..Len(StepOrder) : Applies(StepOrder[i], a)}
    IN  IF later = {} THEN "exited"
        ELSE StepOrder[CHOOSE i \in later : \A j \in later : i <= j]

(***************************************************************************)
(* JSON patches.                                                           *)
(***************************************************************************)
\* Lines 257-259 on the parsed tsconfig.json.
PatchTsConfig(val) ==
    LET co == ObjOrEmpty(val, "compilerOptions")
        co1 == Put(co, "baseUrl", Str("./src"))
        co2 == Put(co1, "paths", Obj("@/*" :> Arr(<<"./*">>)))
    IN  Put(val, "compilerOptions", Obj(co2))

\* Lines 268-270 on the parsed tsconfig.app.json.
PatchTsConfigApp(val) ==
    LET co == ObjOrEmpty(val, "compilerOptions")
        co1 == Put(co, "baseUrl", Str("."))
        co2 == Put(co1, "paths", Obj("@/*" :> Arr(<<"./src/*">>)))
    IN  Put(val, "compilerOptions", Obj(co2))

\* The lint patch with lint:fix following the chosen package manager.
PatchLintScripts_PerManager(val) ==
    LET s == ObjOrEmpty(val, "scripts")
        s1 == Put(s, "lint",
                  Str("eslint . --ext js,jsx,ts,tsx --report-unused-disable-directives --max-warnings 0"))
        s2 == Put(s1, "lint:fix", Str(runScriptCmd(answers) \o " lint -- --fix"))
        s3 == Put(s2, "format", Str("prettier --write ."))
    IN  Put(val, "scripts", Obj(s3))

\* Lines 307-310 on the parsed package.json.
PatchLintScripts(val) ==
    LET s == ObjOrEmpty(val, "scripts")
        s1 == Put(s, "lint",
                  Str("eslint . --ext js,jsx,ts,tsx --report-unused-disable-directives --max-warnings 0"))
        s2 == Put(s1, "lint:fix", Str("npm run lint -- --fix"))
        s3 == Put(s2, "format", Str("prettier --write ."))
    IN  Put(val, "scripts", Obj(s3))

\* The test patch as a blind overwrite of the scripts object.
PatchTestScript_Blind(val) == Put(val, "scripts", Obj("test" :> Str("vitest")))

\* Lines 323-324 on the parsed package.json.
PatchTestScript(val) ==
    LET s == ObjOrEmpty(val, "scripts")
    IN  Put(val, "scripts", Obj(Put(s, "test", Str("vitest"))))

(***************************************************************************)
(* Generated files.                                                        *)
(***************************************************************************)
\* commonFolders without the stores entry.
commonFolders_NoStores == <<"components", "pages", "utils", "hooks", "context", "layouts">>

\* Line 354.
commonFolders == <<"components", "pages", "utils", "hooks", "context", "layouts", "stores">>

viteConfigPath(a) == IF isTS(a) THEN "vite.config.ts" ELSE "vite.config.js"

\* The entry file's imports without the Redux import line.
mainContentImports_NoReduxImport(a) ==
    LET base == IF a.router
                THEN <<"React", "ReactDOM", "BrowserRouter", "App", "./index.css">>
                ELSE <<"React", "ReactDOM", "App", "./index.css">>
    IN  IF a.stateManagement = "Context API" THEN base \o <<"AppProvider">> ELSE base

\* Lines 369-373 and 402, 430: the import lines of the entry file, by imported name.
mainContentImports(a) ==
    LET base == IF a.router
                THEN <<"React", "ReactDOM", "BrowserRouter", "App", "./index.css">>
                ELSE <<"React", "ReactDOM", "App", "./index.css">>
        ctx == IF a.stateManagement = "Context API" THEN base \o <<"AppProvider">> ELSE base
    IN  IF a.stateManagement = "Redux" THEN ctx \o <<"Provider", "store">> ELSE ctx

\* The wrappers applied in the other order: the router around the state wrapper.
appWrapper_RouterOutside(a) ==
    LET w0 == <<"App">>
        w1 == IF a.stateManagement = "Context API" THEN <<"AppProvider">> \o w0 ELSE w0
        w2 == IF a.stateManagement = "Redux" THEN <<"Provider">> \o w1 ELSE w1
    IN  IF a.router THEN <<"BrowserRouter">> \o w2 ELSE w2

\* Lines 370, 393, 403, 431: the JSX handed to render(), outermost element first.
appWrapper(a) ==
    LET w0 == IF a.router THEN <<"BrowserRouter", "App">> ELSE <<"App">>
        w1 == IF a.stateManagement = "Context API" THEN <<"AppProvider">> \o w0 ELSE w0
    IN  IF a.stateManagement = "Redux" THEN <<"Provider">> \o w1 ELSE w1

\* Line 435: the entry file.
MainFile(a) ==
    [imports |-> mainContentImports(a), tree |-> <<"React.StrictMode">> \o appWrapper(a)]
NoMain == [imports |-> <<>>, tree |-> <<>>]

\* Lines 364-439: the files the starter-files block writes, in order.
StarterPaths(a) ==
    <<"src/pages/Home." \o ext(a)>>
    \o (IF a.router
        THEN <<"src/layouts/MainLayout." \o ext(a), "src/pages/About." \o ext(a),
               "src/App." \o ext(a)>>
        ELSE <<>>)
    \o (IF a.stateManagement = "Context API"
        THEN <<"src/context/AppContext." \o ext(a)>> ELSE <<>>)
    \o (IF a.stateManagement = "Zustand"
        THEN <<"src/stores/useCounterStore." \o storeExt(a)>> ELSE <<>>)
    \o (IF a.stateManagement = "Redux"
        THEN <<"src/stores/counterSlice." \o storeExt(a), "src/stores/store." \o storeExt(a)>>
        ELSE <<>>)
    \o <<"src/main." \o ext(a)>>

\* Lines 453-469: the README, by the parts that depend on the answers.
Readme(a) ==
    [title |-> a.projectName, install |-> a.packageManager \o " install (already done)",
     scripts |-> <<runScriptCmd(a) \o " dev">>
        \o (IF a.linting THEN <<runScriptCmd(a) \o " lint", runScriptCmd(a) \o " format">>
            ELSE <<>>)
        \o (IF a.testing THEN <<runScriptCmd(a) \o " test">> ELSE <<>>)]
NoReadme == [title |-> "", install |-> "", scripts |-> <<>>]

(***************************************************************************)
(* process.version and the pattern of line 33.  A version string is the    *)
(* character "v", the decimal major, ".", the decimal minor, ".", "0".     *)
(***************************************************************************)
DigitChars == <<"0", "1", "2", "3", "4", "5", "6", "7", "8", "9">>
IsDigit(c) == \E d \in 1..10 : DigitChars[d] = c

RECURSIVE Decimal(_)
Decimal(n) ==
    IF n < 10 THEN <<DigitChars[n + 1]>>
    ELSE Decimal(n \div 10) \o <<DigitChars[(n % 10) + 1]>>

Version(major, minor) == <<"v">> \o Decimal(major) \o <<".">> \o Decimal(minor) \o <<".", "0">>

\* The releases v0 .. vMaxMajor, each with a one-digit and a two-digit minor.
MaxMajor == 200
Minors == {0, 18}
Versions == {Version(major, minor) : major \in 0..MaxMajor, minor \in Minors}

\* /^v(1[8-9]|2[0-9])\./.test(version)
VersionTest(version) ==
    /\ Len(version) >= 4
    /\ version[1] = "v"
    /\ \/ version[2] = "1" /\ version[3] \in {"8", "9"}
       \/ version[2] = "2" /\ IsDigit(version[3])
    /\ version[4] = "."

(***************************************************************************)
(* What the scaffold and the installs may have left in the JSON files.     *)
(***************************************************************************)
Unread == [unread |-> TRUE]

\* package.json: without a scripts object, or with scripts that already hold
\* entries of their own and entries named like the ones this tool sets.
ManifestValues ==
    { ("name" :> Str("demo")) @@ ("version" :> Str("0.0.0")),
      ("name" :> Str("demo")) @@ ("dependencies" :> Obj("react" :> Str("^19")))
        @@ ("scripts" :> Obj(("dev" :> Str("vite")) @@ ("build" :> Str("vite build"))
                             @@ ("lint" :> Str("eslint .")) @@ ("test" :> Str("jest")))) }
ManifestTexts == {Text(FALSE, val) : val \in ManifestValues}

\* tsconfig.json: a file carrying a comment, or a plain one with compiler
\* options and path entries of its own.
TsConfigTexts ==
    { Text(TRUE, ("files" :> Arr(<<>>)) @@ ("references" :> Arr(<<"./tsconfig.app.json">>))),
      Text(FALSE,
           ("include" :> Arr(<<"src">>))
           @@ ("compilerOptions" :>
                 Obj(("strict" :> Str("true")) @@ ("baseUrl" :> Str("."))
                     @@ ("paths" :> Obj(("@/*" :> Arr(<<"./old/*">>))
                                        @@ ("~/*" :> Arr(<<"./lib/*">>))))))) }

\* tsconfig.app.json: absent, the commented file of the upstream template, or a
\* plain file without compiler options.
TsConfigAppTexts ==
    { NoFile,
      Text(TRUE,
           ("include" :> Arr(<<"src">>))
           @@ ("compilerOptions" :>
                 Obj(("target" :> Str("ES2022")) @@ ("strict" :> Str("true"))))),
      Text(FALSE, "include" :> Arr(<<"src">>)) }

(***************************************************************************)
(* A tsconfig.app.json piece by piece: between "{" and "}", one per line, *)
(* members with a string value, members with an object value holding one   *)
(* string, block comments and line comments.  A member is followed by a    *)
(* comma when another member comes after it.                               *)
(***************************************************************************)
MaxPieces == 3

Keys == {<<"a">>, <<"b">>}
OptionsKey == <<"c", "o", "m", "p", "i", "l", "e", "r", "O", "p", "t", "i", "o", "n", "s">>
StrictKey == <<"s", "t", "r", "i", "c", "t">>
\* String values: plain, holding the character pairs that open or close a
\* comment, and the glob s/**/*.
Values ==
    {<<"x">>, <<"/", "/", "x">>, <<"/", "*">>, <<"*", "/">>, <<"s", "/", "*", "*", "/", "*">>}
CommentBodies == {<<"c">>, <<Quote>>}

Piece(kind, key, body) == [kind |-> kind, key |-> key, body |-> body]
Pieces ==
    {Piece("string", k, v) : k \in Keys, v \in Values}
    \cup {Piece("object", OptionsKey, v) : v \in Values}
    \cup {Piece(kind, <<>>, b) : kind \in {"block", "line"}, b \in CommentBodies}

IsMember(p) == p.kind \in {"string", "object"}

\* The files of at most MaxPieces pieces in which no key occurs twice.
Sources ==
    {src \in UNION {[1..n -> Pieces] : n \in 0..MaxPieces} :
        \A i, j \in DOMAIN src :
            i # j /\ IsMember(src[i]) /\ IsMember(src[j]) => src[i].key # src[j].key}

Quoted(chars) == <<Quote>> \o chars \o <<Quote>>

PieceChars(p) ==
    CASE p.kind = "string" -> Quoted(p.key) \o <<":", " ">> \o Quoted(p.body)
      [] p.kind = "object" -> Quoted(p.key) \o <<":", " ", "{">> \o Quoted(StrictKey)
                              \o <<":", " ">> \o Quoted(p.body) \o <<"}">>
      [] p.kind = "block" -> <<"/", "*">> \o p.body \o <<"*", "/">>
      [] p.kind = "line" -> <<"/", "/">> \o p.body

\* The characters of the file from its i-th piece on.
RECURSIVE CharsFrom(_, _)
CharsFrom(src, i) ==
    IF i > Len(src) THEN <<"}">>
    ELSE LET comma == IF IsMember(src[i]) /\ \E j \in (i + 1)..Len(src) : IsMember(src[j])
                      THEN <<",">> ELSE <<>>
         IN  PieceChars(src[i]) \o comma \o <<NL>> \o CharsFrom(src, i + 1)

\* fs.readFileSync(tsconfigAppPath, "utf-8")
Chars(src) == <<"{", NL>> \o CharsFrom(src, 1)

RECURSIVE StringOf(_)
StringOf(chars) == IF chars = <<>> THEN "" ELSE chars[1] \o StringOf(Tail(chars))

\* The JSON value the file denotes: its members, the comments set aside.
RECURSIVE ValueFrom(_, _)
ValueFrom(src, i) ==
    IF i > Len(src) THEN EmptyObj
    ELSE LET p == src[i]
             rest == ValueFrom(src, i + 1)
         IN  CASE p.kind = "string" -> Put(rest, StringOf(p.key), Str(StringOf(p.body)))
               [] p.kind = "object" ->
                    Put(rest, StringOf(p.key), Obj(StringOf(StrictKey) :> Str(StringOf(p.body))))
               [] OTHER -> rest
Value(src) == ValueFrom(src, 1)

\* The text a read returns: what this tool last wrote, else what the external tools left.
ReadTexts(cur, left) == IF cur = Unread THEN left ELSE {cur}

(***************************************************************************)
(* Events, and the state in which main() reaches its prompts (the Node     *)
(* version check of lines 31-36 has passed).                               *)
(***************************************************************************)
CmdEvent(step, command, ok) == [kind |-> "cmd", id |-> step, arg |-> command, ok |-> ok]
WriteEvent(path) == [kind |-> "write", id |-> path, arg |-> "", ok |-> TRUE]
MkdirEvent(path) == [kind |-> "mkdir", id |-> path, arg |-> "", ok |-> TRUE]
LogEvent(id, text) == [kind |-> "log", id |-> id, arg |-> text, ok |-> TRUE]
RmEvent(ok) == [kind |-> "rm", id |-> "projectPath", arg |-> "", ok |-> ok]

\* A block of len file-system calls either completes (len) or ends at a call that
\* throws, with the n < len calls before it done; the throwing call is one of the
\* first MaxFailPoint calls of the block.
MaxFailPoint == 1
Progress(len) == {n \in 0..len : n = len \/ n < MaxFailPoint}

WriteEvents(paths, n) == [i \in 1..n |-> WriteEvent(paths[i])]
Prefix(paths, n) == {paths[i] : i \in 1..n}

NotPatched == [state |-> "unread", file |-> NoFile]

\* main() is entered with process.version one of `versions`; nothing has run yet.
Start(versions) ==
    /\ nodeVersion \in versions
    /\ pc = "versionCheck"
    /\ answers = DefaultAnswers
    /\ overwrite = "unasked"
    /\ dir \in {"absent", "old"}
    /\ files = {}
    /\ dirs = {}
    /\ packageJson = Unread
    /\ tsConfig = Unread
    /\ tsConfigApp = Unread
    /\ orig = [packageJson |-> Unread, tsConfig |-> Unread, tsConfigApp |-> Unread]
    /\ mainFile = NoMain
    /\ readme = NoReadme
    /\ events = <<>>
    /\ error = "none"
    /\ exitCode = 0
    /\ source = <<>>
    /\ patched = NotPatched

\* A run of the tool under an unsupported and under a supported Node.js release.
Init == Start({Version(16, 0), Version(20, 0)})

given == <<nodeVersion, source, patched>>
disk == <<dir, files, dirs, packageJson, tsConfig, tsConfigApp, orig, mainFile, readme>>
json == <<packageJson, tsConfig, tsConfigApp, orig>>

(***************************************************************************)
(* Lines 31-36: the Node version check.  A version the pattern does not    *)
(* match ends the process with exit code 1 before any prompt.              *)
(***************************************************************************)
VersionCheck ==
    /\ pc = "versionCheck"
    /\ IF VersionTest(nodeVersion)
       THEN pc' = "prompt" /\ exitCode' = exitCode
       ELSE pc' = "exited" /\ exitCode' = 1
    /\ UNCHANGED <<given, answers, overwrite, disk, events, error>>

(***************************************************************************)
(* Lines 39-124: the prompts.                                              *)
(***************************************************************************)
Prompt ==
    /\ pc = "prompt"
    /\ answers' \in Answers
    /\ pc' = "overwrite"
    /\ UNCHANGED <<given, overwrite, disk, events, error, exitCode>>

\* The overwrite check without its process.exit(0): declining falls through.
OverwriteCheck_FallThrough ==
    /\ pc = "overwrite"
    /\ \E accept \in BOOLEAN :
          /\ overwrite' = IF dir = "absent" THEN overwrite ELSE IF accept THEN "yes" ELSE "no"
          /\ events' = IF dir # "absent" /\ accept THEN Append(events, RmEvent(TRUE)) ELSE events
          /\ dir' = IF accept THEN "absent" ELSE dir
          /\ pc' = "create"
    /\ UNCHANGED <<given, answers, files, dirs, json, mainFile, readme, error, exitCode>>

(***************************************************************************)
(* Lines 126-139: the overwrite check.  Declining exits 0; accepting       *)
(* removes the directory, and an rmSync that throws here is outside the    *)
(* try block, so it reaches main().catch (lines 500-503): exit 1.          *)
(***************************************************************************)
OverwriteCheck ==
    /\ pc = "overwrite"
    /\ \E accept \in BOOLEAN, rmOk \in BOOLEAN :
          IF dir = "absent"
          THEN /\ pc' = "create"
               /\ UNCHANGED <<overwrite, dir, events, exitCode>>
          ELSE IF ~accept
          THEN /\ overwrite' = "no"
               /\ pc' = "exited"
               /\ exitCode' = 0
               /\ UNCHANGED <<dir, events>>
          ELSE /\ overwrite' = "yes"
               /\ events' = Append(events, RmEvent(rmOk))
               /\ dir' = IF rmOk THEN "absent" ELSE dir
               /\ pc' = IF rmOk THEN "create" ELSE "exited"
               /\ exitCode' = IF rmOk THEN exitCode ELSE 1
    /\ UNCHANGED <<given, answers, files, dirs, json, mainFile, readme, error>>

\* RunCommand with its catch block swallowing the error: the run goes on.
RunCommand_Swallow(step) ==
    /\ pc = step
    /\ \E ok \in BOOLEAN :
          /\ events' = Append(events, CmdEvent(step, CommandOf(step, answers), ok))
          /\ pc' = After(step, answers)
    /\ UNCHANGED <<given, answers, overwrite, disk, error, exitCode>>

(***************************************************************************)
(* Lines 17-26: runCommand.  execSync throws on a non-zero exit status and *)
(* runCommand rethrows, which lands in the catch block of main().          *)
(***************************************************************************)
RunCommand(step) ==
    /\ pc = step
    /\ \E ok \in BOOLEAN :
          /\ events' = Append(events, CmdEvent(step, CommandOf(step, answers), ok))
          /\ pc' = IF ok THEN After(step, answers) ELSE "catch"
          /\ error' = IF ok THEN error ELSE "command"
    /\ UNCHANGED <<given, answers, overwrite, disk, exitCode>>

\* fs.writeFileSync of each path in order; a write that throws ends the block
\* with the earlier writes done.
WriteFiles(step, paths) ==
    /\ pc = step
    /\ \E n \in Progress(Len(paths)) :
          /\ files' = files \cup Prefix(paths, n)
          /\ events' = events \o WriteEvents(paths, n)
          /\ pc' = IF n = Len(paths) THEN After(step, answers) ELSE "catch"
          /\ error' = IF n = Len(paths) THEN error ELSE "fs"
    /\ UNCHANGED <<given, answers, overwrite, dir, dirs, json, mainFile, readme, exitCode>>

(***************************************************************************)
(* Lines 172-231: scaffold and installs.                                   *)
(***************************************************************************)
\* Lines 174-176.  A scaffold that succeeds has created the project directory;
\* one that fails may or may not have.
CreateViteApp ==
    /\ pc = "create"
    /\ \E ok \in BOOLEAN, created \in BOOLEAN :
          /\ events' = Append(events, CmdEvent("create", CommandOf("create", answers), ok))
          /\ dir' = IF ok \/ created THEN "new" ELSE dir
          /\ pc' = IF ok THEN After("create", answers) ELSE "catch"
          /\ error' = IF ok THEN error ELSE "command"
    /\ UNCHANGED <<given, answers, overwrite, files, dirs, json, mainFile, readme, exitCode>>

InstallBaseDeps ==
    /\ pc = "baseInstall"
    /\ RunCommand("baseInstall")
InstallTailwind ==
    /\ pc = "tailwind"
    /\ RunCommand("tailwind")
InstallRouter ==
    /\ pc = "router"
    /\ RunCommand("router")
InstallShadcnDeps ==
    /\ pc = "shadcnDeps"
    /\ RunCommand("shadcnDeps")
InstallZustand ==
    /\ pc = "zustand"
    /\ RunCommand("zustand")
InstallRedux ==
    /\ pc = "redux"
    /\ RunCommand("redux")
InstallReduxTypes ==
    /\ pc = "reduxTypes"
    /\ RunCommand("reduxTypes")
InstallTesting ==
    /\ pc = "testingDeps"
    /\ RunCommand("testingDeps")
InstallLinting ==
    /\ pc = "lintingDeps"
    /\ RunCommand("lintingDeps")
InstallPWA ==
    /\ pc = "pwa"
    /\ RunCommand("pwa")

(***************************************************************************)
(* Lines 233-288: Tailwind configuration and path aliases.                 *)
(***************************************************************************)
ConfigureTailwind ==
    /\ pc = "configureTailwind"
    /\ WriteFiles("configureTailwind", <<"src/index.css", viteConfigPath(answers)>>)

\* Lines 255-260: tsconfig.json is parsed as it is read, comments and all.
PatchTsConfigJson ==
    /\ pc = "tsconfig"
    /\ \E text \in ReadTexts(tsConfig, TsConfigTexts), wrote \in BOOLEAN :
          LET parsed == JSONParse(text)
          IN  /\ orig' = [orig EXCEPT !.tsConfig = text]
              /\ IF parsed.ok /\ wrote
                 THEN /\ tsConfig' = JSONStringify(PatchTsConfig(parsed.value))
                      /\ files' = files \cup {"tsconfig.json"}
                      /\ events' = Append(events, WriteEvent("tsconfig.json"))
                      /\ pc' = After("tsconfig", answers)
                      /\ error' = error
                 ELSE /\ tsConfig' = text
                      /\ pc' = "catch"
                      /\ error' = IF parsed.ok THEN "fs" ELSE ErrorOf(text)
                      /\ UNCHANGED <<files, events>>
    /\ UNCHANGED <<given, answers, overwrite, dir, dirs, packageJson, tsConfigApp, mainFile, readme, exitCode>>

\* The path-alias block without its @types/node install.
InstallTypesNode_Skipped ==
    /\ pc = "typesNode"
    /\ pc' = After("typesNode", answers)
    /\ UNCHANGED <<given, answers, overwrite, disk, events, error, exitCode>>

InstallTypesNode ==
    /\ pc = "typesNode"
    /\ RunCommand("typesNode")

\* Lines 265-272: tsconfig.app.json, if it exists, is stripped of comments first.
PatchTsConfigAppJson ==
    /\ pc = "tsconfigApp"
    /\ \E text \in ReadTexts(tsConfigApp, TsConfigAppTexts), wrote \in BOOLEAN :
          LET parsed == JSONParse(stripJsonComments(text))
          IN  /\ orig' = [orig EXCEPT !.tsConfigApp = text]
              /\ IF ~text.exists
                 THEN /\ tsConfigApp' = text
                      /\ pc' = After("tsconfigApp", answers)
                      /\ UNCHANGED <<files, events, error>>
                 ELSE IF parsed.ok /\ wrote
                 THEN /\ tsConfigApp' = JSONStringify(PatchTsConfigApp(parsed.value))
                      /\ files' = files \cup {"tsconfig.app.json"}
                      /\ events' = Append(events, WriteEvent("tsconfig.app.json"))
                      /\ pc' = After("tsconfigApp", answers)
                      /\ error' = error
                 ELSE /\ tsConfigApp' = text
                      /\ pc' = "catch"
                      /\ error' = IF parsed.ok THEN "fs" ELSE ErrorOf(text)
                      /\ UNCHANGED <<files, events>>
    /\ UNCHANGED <<given, answers, overwrite, dir, dirs, packageJson, tsConfig, mainFile, readme, exitCode>>

\* Lines 267-271 on the characters of the file: strip, parse, patch, write.
PatchSource ==
    /\ patched = NotPatched
    /\ LET parsed == JSONParseOf(stripJsonCommentsOf(Chars(source)))
       IN  patched' = IF parsed.ok
                      THEN [state |-> "written",
                            file |-> JSONStringify(PatchTsConfigApp(parsed.value))]
                      ELSE [state |-> "threw", file |-> NoFile]
    /\ UNCHANGED <<nodeVersion, pc, answers, overwrite, disk, events, error, exitCode, source>>

WriteJsConfig ==
    /\ pc = "jsconfig"
    /\ WriteFiles("jsconfig", <<"jsconfig.json">>)

(***************************************************************************)
(* Lines 291-335: lint and test configuration.                             *)
(***************************************************************************)
LintPaths == <<".eslintrc.js", ".prettierrc", "package.json">>

\* Lines 292-313: n is the number of writes done before the block ends; the
\* package.json write is the third.
LintingSetup ==
    /\ pc = "lintSetup"
    /\ \E text \in ReadTexts(packageJson, ManifestTexts), n \in Progress(Len(LintPaths)) :
          LET parsed == JSONParse(text)
              done == n = Len(LintPaths) /\ parsed.ok
              k == IF n = Len(LintPaths) /\ ~parsed.ok THEN n - 1 ELSE n
          IN  /\ files' = files \cup Prefix(LintPaths, k)
              /\ events' = events \o WriteEvents(LintPaths, k)
              /\ packageJson' = IF done THEN JSONStringify(PatchLintScripts(parsed.value))
                                ELSE packageJson
              /\ orig' = IF done /\ orig.packageJson = Unread
                         THEN [orig EXCEPT !.packageJson = text] ELSE orig
              /\ pc' = IF done THEN After("lintSetup", answers) ELSE "catch"
              /\ error' = IF done THEN error ELSE IF k < n THEN ErrorOf(text) ELSE "fs"
    /\ UNCHANGED <<given, answers, overwrite, dir, dirs, tsConfig, tsConfigApp, mainFile, readme, exitCode>>

TestPaths(a) == <<"package.json", "src/App.test." \o ext(a)>>

\* Lines 318-334: the package.json write is the first, the sample test the second.
TestingSetup ==
    /\ pc = "testSetup"
    /\ \E text \in ReadTexts(packageJson, ManifestTexts), n \in Progress(Len(TestPaths(answers))) :
          LET parsed == JSONParse(text)
              k == IF parsed.ok THEN n ELSE 0
              done == k = Len(TestPaths(answers))
          IN  /\ files' = files \cup Prefix(TestPaths(answers), k)
              /\ events' = events \o WriteEvents(TestPaths(answers), k)
              /\ packageJson' = IF k >= 1 THEN JSONStringify(PatchTestScript(parsed.value))
                                ELSE packageJson
              /\ orig' = IF k >= 1 /\ orig.packageJson = Unread
                         THEN [orig EXCEPT !.packageJson = text] ELSE orig
              /\ pc' = IF done THEN After("testSetup", answers) ELSE "catch"
              /\ error' = IF done THEN error ELSE IF parsed.ok THEN "fs" ELSE ErrorOf(text)
    /\ UNCHANGED <<given, answers, overwrite, dir, dirs, tsConfig, tsConfigApp, mainFile, readme, exitCode>>

(***************************************************************************)
(* Lines 337-350: git.                                                     *)
(***************************************************************************)
GitInit ==
    /\ pc = "gitInit"
    /\ RunCommand("gitInit")
\* The git block without its .gitignore write.
WriteGitignore_Skipped ==
    /\ pc = "gitignore"
    /\ pc' = After("gitignore", answers)
    /\ UNCHANGED <<given, answers, overwrite, disk, events, error, exitCode>>

WriteGitignore ==
    /\ pc = "gitignore"
    /\ WriteFiles("gitignore", <<".gitignore">>)
GitCommit ==
    /\ pc = "gitCommit"
    /\ RunCommand("gitCommit")

(***************************************************************************)
(* Lines 352-441: folders and starter files.                               *)
(***************************************************************************)
\* Line 355: mkdirSync (recursive) of every entry of commonFolders.
CreateFolders ==
    /\ pc = "folders"
    /\ \E n \in Progress(Len(commonFolders)) :
          /\ dirs' = dirs \cup Prefix(commonFolders, n)
          /\ events' = events \o [i \in 1..n |-> MkdirEvent(commonFolders[i])]
          /\ pc' = IF n = Len(commonFolders) THEN After("folders", answers) ELSE "catch"
          /\ error' = IF n = Len(commonFolders) THEN error ELSE "fs"
    /\ UNCHANGED <<given, answers, overwrite, dir, files, json, mainFile, readme, exitCode>>

\* Lines 359-441: the entry file is the last write of the block.
StarterFiles ==
    /\ pc = "starterFiles"
    /\ \E n \in Progress(Len(StarterPaths(answers))) :
          LET done == n = Len(StarterPaths(answers))
          IN  /\ files' = files \cup Prefix(StarterPaths(answers), n)
              /\ events' = events \o WriteEvents(StarterPaths(answers), n)
              /\ mainFile' = IF done THEN MainFile(answers) ELSE mainFile
              /\ pc' = IF done THEN After("starterFiles", answers) ELSE "catch"
              /\ error' = IF done THEN error ELSE "fs"
    /\ UNCHANGED <<given, answers, overwrite, dir, dirs, json, readme, exitCode>>

(***************************************************************************)
(* Lines 443-487: component kit, environment sample, README.               *)
(***************************************************************************)
ShadcnInit ==
    /\ pc = "shadcnInit"
    /\ RunCommand("shadcnInit")
ShadcnAdd ==
    /\ pc = "shadcnAdd"
    /\ RunCommand("shadcnAdd")
WriteEnvExample ==
    /\ pc = "env"
    /\ WriteFiles("env", <<".env.example">>)

\* Lines 453-487: after the README only console output follows, of which the
\* "Next steps" lines (line 473) are recorded; main() returns and the process
\* ends with exit code 0.
WriteReadme ==
    /\ pc = "readme"
    /\ \E ok \in BOOLEAN :
          /\ files' = IF ok THEN files \cup {"README.md"} ELSE files
          /\ events' = IF ok
                        THEN events \o <<WriteEvent("README.md"),
                                         LogEvent("nextSteps", runScriptCmd(answers) \o " dev")>>
                        ELSE events
          /\ readme' = IF ok THEN Readme(answers) ELSE readme
          /\ pc' = IF ok THEN After("readme", answers) ELSE "catch"
          /\ error' = IF ok THEN error ELSE "fs"
    /\ UNCHANGED <<given, answers, overwrite, dir, dirs, json, mainFile, exitCode>>

\* The catch block without its rollback: it only exits.
Catch_NoRollback ==
    /\ pc = "catch"
    /\ pc' = "exited"
    /\ exitCode' = 1
    /\ UNCHANGED <<given, answers, overwrite, disk, events, error>>

(***************************************************************************)
(* Lines 489-497: the catch block.  The rollback removes the project       *)
(* directory if it exists; an rmSync that throws leaves it and reaches     *)
(* main().catch (lines 500-503).  Either way the process exits with 1.     *)
(***************************************************************************)
Catch ==
    /\ pc = "catch"
    /\ \E rmOk \in BOOLEAN :
          IF dir = "absent"
          THEN UNCHANGED <<dir, files, dirs, packageJson, tsConfig, tsConfigApp,
                           mainFile, readme, events>>
          ELSE IF rmOk
          THEN /\ dir' = "absent"
               /\ files' = {}
               /\ dirs' = {}
               /\ packageJson' = NoFile
               /\ tsConfig' = NoFile
               /\ tsConfigApp' = NoFile
               /\ mainFile' = NoMain
               /\ readme' = NoReadme
               /\ events' = Append(events, RmEvent(TRUE))
          ELSE /\ events' = Append(events, RmEvent(FALSE))
               /\ UNCHANGED <<dir, files, dirs, packageJson, tsConfig, tsConfigApp,
                              mainFile, readme>>
    /\ pc' = "exited"
    /\ exitCode' = 1
    /\ UNCHANGED <<given, answers, overwrite, orig, error>>

Next ==
    \/ VersionCheck
    \/ Prompt
    \/ OverwriteCheck
    \/ CreateViteApp
    \/ InstallBaseDeps
    \/ InstallTailwind
    \/ InstallRouter
    \/ InstallShadcnDeps
    \/ InstallZustand
    \/ InstallRedux
    \/ InstallReduxTypes
    \/ InstallTesting
    \/ InstallLinting
    \/ InstallPWA
    \/ ConfigureTailwind
    \/ PatchTsConfigJson
    \/ InstallTypesNode
    \/ PatchTsConfigAppJson
    \/ WriteJsConfig
    \/ LintingSetup
    \/ TestingSetup
    \/ GitInit
    \/ WriteGitignore
    \/ GitCommit
    \/ CreateFolders
    \/ StarterFiles
    \/ ShadcnInit
    \/ ShadcnAdd
    \/ WriteEnvExample
    \/ WriteReadme
    \/ Catch

Spec == Init /\ [][Next]_vars

(***************************************************************************)
(* The start of main() under every release of Versions: the version check  *)
(* and, where it passes, the prompts (lines 28-124).                       *)
(***************************************************************************)
InitGate == Start(Versions)

NextGate ==
    \/ VersionCheck
    \/ Prompt

SpecGate == InitGate /\ [][NextGate]_vars

(***************************************************************************)
(* The path-alias step on every tsconfig.app.json of Sources: main() is at *)
(* line 266 of a typed project and the file exists.                        *)
(***************************************************************************)
InitPatch ==
    /\ nodeVersion = Version(20, 0)
    /\ pc = "tsconfigApp"
    /\ answers = [DefaultAnswers EXCEPT !.projectName = "demo"]
    /\ overwrite = "unasked"
    /\ dir = "new"
    /\ files = {}
    /\ dirs = {}
    /\ packageJson = Unread
    /\ tsConfig = Unread
    /\ tsConfigApp = Unread
    /\ orig = [packageJson |-> Unread, tsConfig |-> Unread, tsConfigApp |-> Unread]
    /\ mainFile = NoMain
    /\ readme = NoReadme
    /\ events = <<>>
    /\ error = "none"
    /\ exitCode = 0
    /\ source \in Sources
    /\ patched = NotPatched

NextPatch == PatchSource

SpecPatch == InitPatch /\ [][NextPatch]_vars

(***************************************************************************)
(* Properties.                                                             *)
(***************************************************************************)
Cmds == SelectSeq(events, LAMBDA e : e.kind = "cmd")
CmdIds == [i \in 1..Len(Cmds) |-> Cmds[i].id]
Steps == {StepOrder[i] : i \in 1..Len(StepOrder)}

\* main() ran to its end: exit code 0 without the overwrite prompt being declined.
Success == pc = "exited" /\ exitCode = 0 /\ overwrite # "no"

\* The statement `step` ran and completed in this run.
Completed(step) ==
    /\ Applies(step, answers)
    /\ \/ Success
       \/ pc \in Steps /\ IndexOf(pc) > IndexOf(step)

FailedAt(k) == events[k].kind = "cmd" /\ ~events[k].ok
NothingAfter(k) ==
    /\ pc \in {"catch", "exited"}
    /\ \A j \in (k + 1)..Len(events) : events[j].kind = "rm"

\* C1 as stated: once the k-th command exits non-zero, no later command runs and
\* no later file is written, and the process exits with code 1 with the project
\* directory removed.
C1_FailureRemovesDirectory ==
    \A k \in 1..Len(events) :
        FailedAt(k) =>
            /\ NothingAfter(k)
            /\ pc = "exited" => exitCode = 1 /\ dir = "absent"

\* C1 as amended: once the k-th command exits non-zero, no later command runs and
\* no later file is written, and the process exits with code 1; the project
\* directory is removed unless the rollback delete itself throws.
C1_FailureAbortsRun ==
    \A k \in 1..Len(events) :
        FailedAt(k) =>
            /\ NothingAfter(k)
            /\ pc = "exited" =>
                  /\ exitCode = 1
                  /\ dir = "absent" \/ events[Len(events)] = RmEvent(FALSE)
                  /\ events[Len(events)] = RmEvent(TRUE) => dir = "absent" /\ files = {}

\* A run whose last command, the component-kit add, failed after every file was
\* written, and whose rollback removed the project directory.
C1_Witness ==
    /\ pc = "exited"
    /\ exitCode = 1
    /\ dir = "absent"
    /\ \E k \in 1..Len(events) :
          /\ FailedAt(k)
          /\ events[k].id = "shadcnAdd"
          /\ \E j \in 1..k : events[j] = WriteEvent("src/index.css")

\* C2: declining the overwrite prompt ends the run with exit code 0, no command
\* invoked, nothing written and the pre-existing directory untouched; after
\* accepting, the old directory is deleted before the first command is invoked.
C2_OverwritePrompt ==
    /\ overwrite = "no" =>
          /\ pc = "exited"
          /\ exitCode = 0
          /\ events = <<>>
          /\ files = {} /\ dirs = {}
          /\ dir = "old"
    /\ overwrite = "yes" /\ Cmds # <<>> =>
          /\ events[1] = RmEvent(TRUE)
          /\ dir # "old"

\* The directory pre-existed and the user declined.
C2_Witness == overwrite = "no" /\ pc = "exited" /\ exitCode = 0 /\ dir = "old"

\* The order of the commands as C3 lists it: component-kit init and add before
\* git init, the stage+commit command last.
ClaimedOrder ==
    << "create", "baseInstall", "tailwind", "router", "shadcnDeps", "zustand", "redux",
       "reduxTypes", "testingDeps", "lintingDeps", "pwa", "typesNode",
       "shadcnInit", "shadcnAdd", "gitInit", "gitCommit" >>
Rank(order, id) == CHOOSE i \in 1..Len(order) : order[i] = id

\* C3 as stated: in every successful run the commands execute in the order
\* scaffold, base install, CSS framework, router, component-kit dependencies,
\* state library, test tooling, lint tooling, PWA, node type declarations,
\* component-kit init and add, git init, stage+commit; with git chosen the
\* stage+commit command is the last command executed.
C3_CommandOrder ==
    Success =>
        /\ \A i, j \in 1..Len(CmdIds) :
              i < j => Rank(ClaimedOrder, CmdIds[i]) < Rank(ClaimedOrder, CmdIds[j])
        /\ answers.git => CmdIds[Len(CmdIds)] = "gitCommit"

C4Answers ==
    /\ isTS(answers)
    /\ answers.uiLibrary = "None" /\ answers.stateManagement = "None"
    /\ ~answers.testing /\ ~answers.linting /\ ~answers.git
    /\ ~answers.router /\ ~answers.pwa

\* C4 as stated: with a typed language and every option off, a successful run
\* executes exactly 3 commands: scaffold, base install, CSS-framework install.
C4_ThreeCommands ==
    Success /\ C4Answers => CmdIds = <<"create", "baseInstall", "tailwind">>

\* C4 as amended: with a typed language and every option off, a successful run
\* executes exactly 4 commands: scaffold, base install, CSS-framework install
\* and the node type-declarations install.
C4_FourCommands ==
    Success /\ C4Answers =>
        /\ CmdIds = <<"create", "baseInstall", "tailwind", "typesNode">>
        /\ \A i \in 1..Len(Cmds) : Cmds[i].ok

\* The scenario of the spec: package manager yarn, typed, everything else off.
C4_Witness == Success /\ C4Answers /\ answers.packageManager = "yarn"

\* C5 as stated: every successful run writes .gitignore, .env.example and the
\* README into the project directory.
C5_AlwaysWritten == Success => {".gitignore", ".env.example", "README.md"} \subseteq files

\* C5 as amended: every successful run writes .env.example and the README; it
\* writes .gitignore if and only if git = true.
C5_IgnoreFileOnlyWithGit ==
    Success =>
        /\ {".env.example", "README.md"} \subseteq files
        /\ ".gitignore" \in files <=> answers.git

\* A successful run without git: README and .env.example written, no .gitignore.
C5_Witness ==
    /\ Success
    /\ ~answers.git
    /\ ".gitignore" \notin files
    /\ {".env.example", "README.md"} \subseteq files

SixFolders == {"components", "pages", "utils", "hooks", "context", "layouts"}

\* C6 as stated: the folder step creates the six directories always and the
\* stores directory if and only if stateManagement is not None; with None exactly
\* 6 directories are created.
C6_StoresOnlyWithState ==
    Completed("folders") =>
        /\ SixFolders \subseteq dirs
        /\ "stores" \in dirs <=> answers.stateManagement # "None"
        /\ answers.stateManagement = "None" => Cardinality(dirs) = Cardinality(SixFolders)

\* C6 as amended: the folder step creates the six directories and the stores
\* directory for every stateManagement, None included: always exactly these 7.
C6_SevenFoldersAlways ==
    Completed("folders") =>
        /\ dirs = SixFolders \cup {"stores"}
        /\ Cardinality(dirs) = Cardinality(SixFolders) + 1

\* stateManagement None and the stores directory created.
C6_Witness ==
    Completed("folders") /\ answers.stateManagement = "None" /\ "stores" \in dirs

StateWrappers == {"AppProvider", "Provider"}
\* The tree handed to render(), inside React.StrictMode.
Rendered == Tail(mainFile.tree)

\* C7 as stated: whenever stateManagement is not None and router is true, the
\* entry file nests stateWrapper(routerWrapper(app)).
C7_StateAroundRouter ==
    Success /\ answers.stateManagement # "None" /\ answers.router =>
        /\ Len(Rendered) = 3
        /\ Rendered[1] \in StateWrappers
        /\ Rendered[2] = "BrowserRouter"
        /\ Rendered[3] = "App"

\* C7 as amended: with router true, Context API and Redux nest as
\* stateWrapper(routerWrapper(app)); Zustand adds no state wrapper, so the tree
\* is routerWrapper(app).
C7_StateAroundRouterWhereWrapped ==
    Success /\ answers.router =>
        /\ answers.stateManagement = "Context API" =>
              Rendered = <<"AppProvider", "BrowserRouter", "App">>
        /\ answers.stateManagement = "Redux" =>
              Rendered = <<"Provider", "BrowserRouter", "App">>
        /\ answers.stateManagement \in {"Zustand", "None"} =>
              Rendered = <<"BrowserRouter", "App">>

\* Redux with the router: the store provider around the router around the app.
C7_Witness ==
    /\ Success
    /\ answers.router /\ answers.stateManagement = "Redux"
    /\ mainFile.tree = <<"React.StrictMode", "Provider", "BrowserRouter", "App">>

WrapperCount == Cardinality({i \in 1..Len(mainFile.tree) : mainFile.tree[i] \in StateWrappers})
WrapperImports == {mainFile.imports[i] : i \in 1..Len(mainFile.imports)} \cap StateWrappers

\* C8 as stated: the entry file has exactly one state wrapper, imported, for each
\* of Context API, Zustand and Redux, and none for None.
C8_OneWrapperPerOption ==
    Success =>
        /\ answers.stateManagement # "None" =>
              /\ WrapperCount = 1
              /\ Rendered[1] \in WrapperImports
        /\ answers.stateManagement = "None" => WrapperCount = 0

\* C8 as amended: the entry file has exactly one top-level state wrapper,
\* imported, for Context API and for Redux, and no state wrapper and no wrapper
\* import for None and for Zustand.
C8_OneWrapperForContextAndRedux ==
    Success =>
        /\ answers.stateManagement = "Context API" =>
              /\ WrapperCount = 1
              /\ Rendered[1] = "AppProvider"
              /\ WrapperImports = {"AppProvider"}
        /\ answers.stateManagement = "Redux" =>
              /\ WrapperCount = 1
              /\ Rendered[1] = "Provider"
              /\ WrapperImports = {"Provider"}
              /\ \E i \in 1..Len(mainFile.imports) : mainFile.imports[i] = "store"
        /\ answers.stateManagement \in {"None", "Zustand"} =>
              /\ WrapperCount = 0
              /\ WrapperImports = {}

\* Zustand: the store module is written and the entry file has no state wrapper.
C8_Witness ==
    /\ Success
    /\ answers.stateManagement = "Zustand"
    /\ ("src/stores/useCounterStore." \o storeExt(answers)) \in files
    /\ WrapperCount = 0

\* The script entries this tool sets for the chosen answers.
OwnedScripts ==
    (IF answers.linting THEN {"lint", "lint:fix", "format"} ELSE {})
    \cup (IF answers.testing THEN {"test"} ELSE {})

\* The lint and test configuration steps that apply have both completed.
ManifestPatched ==
    /\ answers.linting \/ answers.testing
    /\ Success \/ (pc \in Steps /\ IndexOf(pc) > IndexOf("testSetup"))

\* Every key of `before` except those in `owned` is in `after` with its value.
Preserved(before, after, owned) ==
    \A k \in (DOMAIN before) \ owned : Has(after, k) /\ after[k] = before[k]

\* C9: after the lint and/or test configuration steps the manifest holds every
\* top-level key and every scripts entry it held before, with its original
\* value, except the owned entries scripts.lint, scripts.lint:fix, scripts.format
\* (set iff linting) and scripts.test (set iff testing); nothing else is added.
C9_ManifestReadMergeWrite ==
    ManifestPatched =>
        LET before == orig.packageJson.value
            after == packageJson.value
            scriptsBefore == ObjOrEmpty(before, "scripts")
            scriptsAfter == ObjOrEmpty(after, "scripts")
        IN  /\ packageJson.exists /\ ~packageJson.comments
            /\ Preserved(before, after, {"scripts"})
            /\ DOMAIN after = (DOMAIN before) \cup {"scripts"}
            /\ Preserved(scriptsBefore, scriptsAfter, OwnedScripts)
            /\ DOMAIN scriptsAfter = (DOMAIN scriptsBefore) \cup OwnedScripts
            /\ answers.linting =>
                  /\ scriptsAfter["lint:fix"] = Str("npm run lint -- --fix")
                  /\ scriptsAfter["format"] = Str("prettier --write .")
                  /\ scriptsAfter["lint"] =
                        Str("eslint . --ext js,jsx,ts,tsx --report-unused-disable-directives --max-warnings 0")
            /\ answers.testing => scriptsAfter["test"] = Str("vitest")

\* Linting and testing both on, over a manifest that already had scripts: the
\* four owned entries are set and the other entries kept.
C9_Witness ==
    /\ ManifestPatched
    /\ answers.linting /\ answers.testing
    /\ Has(orig.packageJson.value, "scripts")
    /\ orig.packageJson.value["scripts"].v["test"] = Str("jest")
    /\ LET scriptsAfter == packageJson.value["scripts"].v
       IN  /\ {"lint", "lint:fix", "format", "test"} \subseteq DOMAIN scriptsAfter
           /\ scriptsAfter["test"] = Str("vitest")
           /\ scriptsAfter["dev"] = Str("vite")
           /\ Has(packageJson.value, "dependencies")

\* The patch of a type-config file kept everything but baseUrl and paths["@/*"].
OnlyOwnedKeysChanged(before, after) ==
    LET optsBefore == ObjOrEmpty(before, "compilerOptions")
        optsAfter == ObjOrEmpty(after, "compilerOptions")
    IN  /\ Preserved(before, after, {"compilerOptions"})
        /\ Preserved(optsBefore, optsAfter, {"baseUrl", "paths"})
        /\ Preserved(ObjOrEmpty(optsBefore, "paths"), ObjOrEmpty(optsAfter, "paths"), {"@/*"})

\* C10 as stated: the patch of tsconfig.json and of tsconfig.app.json changes
\* only compilerOptions.baseUrl and compilerOptions.paths["@/*"]; every other
\* top-level key, compilerOptions key and paths entry keeps its value.
C10_TypeConfigOnlyOwnedKeys ==
    /\ Completed("tsconfig") =>
          OnlyOwnedKeysChanged(orig.tsConfig.value, tsConfig.value)
    /\ Completed("tsconfigApp") /\ orig.tsConfigApp.exists =>
          OnlyOwnedKeysChanged(orig.tsConfigApp.value, tsConfigApp.value)

\* The type-config file `first` was read by this run with comments around valid JSON.
ReadWithComments(first) == first # Unread /\ first.exists /\ first.comments

\* C11: in a typed project the patch of a type-config file that carries comments
\* around valid JSON never aborts the run with a parse error, for tsconfig.json
\* and for tsconfig.app.json alike.
C11_PatchToleratesComments ==
    /\ isTS(answers) /\ ReadWithComments(orig.tsConfig) => error # "syntax"
    /\ isTS(answers) /\ ReadWithComments(orig.tsConfigApp) => error # "syntax"

\* C12: for every tsconfig.app.json that is valid JSON plus comments, string
\* values holding "//" or "/*" included, strip-parse-patch-write yields valid
\* JSON with exactly the keys the file had, their values unchanged, plus
\* compilerOptions.baseUrl and compilerOptions.paths, and no comment in it.
C12_RoundTrip ==
    patched # NotPatched =>
        /\ patched.state = "written"
        /\ patched.file.exists /\ ~patched.file.comments
        /\ LET before == Value(source)
               after == patched.file.value
               optsBefore == ObjOrEmpty(before, "compilerOptions")
               optsAfter == ObjOrEmpty(after, "compilerOptions")
           IN  /\ DOMAIN after = (DOMAIN before) \cup {"compilerOptions"}
               /\ Preserved(before, after, {"compilerOptions"})
               /\ DOMAIN optsAfter = (DOMAIN optsBefore) \cup {"baseUrl", "paths"}
               /\ Preserved(optsBefore, optsAfter, {"baseUrl", "paths"})
               /\ optsAfter["baseUrl"] = Str(".")
               /\ optsAfter["paths"] = Obj("@/*" :> Arr(<<"./src/*">>))

\* The major version a version string names: the decimal number after the "v".
DigitValue(c) == CHOOSE d \in 0..9 : DigitChars[d + 1] = c
RECURSIVE MajorFrom(_, _, _)
MajorFrom(version, i, acc) ==
    IF i > Len(version) \/ ~IsDigit(version[i]) THEN acc
    ELSE MajorFrom(version, i + 1, 10 * acc + DigitValue(version[i]))
Major(version) == MajorFrom(version, 2, 0)

\* C13: once the version check has run, the tool is at or past its prompts iff
\* the major version of Node.js is 18 or higher; otherwise it has exited with
\* code 1 without asking a question or doing anything else.
C13_GateAcceptsFrom18 ==
    pc # "versionCheck" =>
        IF Major(nodeVersion) >= 18
        THEN ~(pc = "exited" /\ exitCode = 1 /\ events = <<>> /\ overwrite = "unasked")
        ELSE /\ pc = "exited" /\ exitCode = 1
             /\ answers = DefaultAnswers /\ overwrite = "unasked" /\ events = <<>>

\* The script-invocation prefix the claim gives for a package manager.
ClaimedPrefix(pm) == IF pm = "npm" THEN "npm run" ELSE pm
Logs == SelectSeq(events, LAMBDA e : e.kind = "log")

\* C14: with linting on, once the lint configuration is written the manifest's
\* lint:fix script is "npm run lint -- --fix" whatever the package manager;
\* the README's script lines and the "Next steps" output of a finished run
\* start with "npm run" for npm and with the bare manager name otherwise.
C14_LintFixFixedPrefixVaries ==
    /\ Completed("lintSetup") =>
          packageJson.value["scripts"].v["lint:fix"] = Str("npm run lint -- --fix")
    /\ Success =>
          LET prefix == ClaimedPrefix(answers.packageManager)
          IN  /\ readme.scripts =
                    <<prefix \o " dev">>
                    \o (IF answers.linting THEN <<prefix \o " lint", prefix \o " format">> ELSE <<>>)
                    \o (IF answers.testing THEN <<prefix \o " test">> ELSE <<>>)
              /\ Logs = <<LogEvent("nextSteps", prefix \o " dev")>>

\* A finished pnpm run with linting: lint:fix is in npm syntax while the README
\* says "pnpm lint".
C14_Witness ==
    /\ Success
    /\ answers.linting
    /\ answers.packageManager = "pnpm"
    /\ packageJson.value["scripts"].v["lint:fix"] = Str("npm run lint -- --fix")
    /\ readme.scripts[2] = "pnpm lint"
    /\ Logs = <<LogEvent("nextSteps", "pnpm dev")>>

\* The run entered the try block and left it by an exception, and the process
\* has ended without the rollback delete having thrown.
FailedAndRolledBack ==
    /\ pc = "exited"
    /\ error # "none"
    /\ events # <<>> => events[Len(events)] # RmEvent(FALSE)

\* C15: a run that fails in the setup phase, by a command or a file-system
\* error, and whose rollback delete does not throw ends with exit code 1 and no
\* project directory: nothing the tool wrote is left, and a directory that
\* pre-existed and was overwritten is not back.  This includes a failure of the
\* scaffold command itself.
C15_RollbackLeavesNothing ==
    FailedAndRolledBack =>
        /\ exitCode = 1
        /\ dir = "absent"
        /\ files = {} /\ dirs = {}
        /\ \A f \in {packageJson, tsConfig, tsConfigApp} : f # Unread => ~f.exists
        /\ mainFile = NoMain /\ readme = NoReadme

\* The directory pre-existed, the overwrite was accepted, the scaffold command
\* failed after creating the directory anew, and the rollback removed it.
C15_Witness ==
    /\ FailedAndRolledBack
    /\ overwrite = "yes"
    /\ error = "command"
    /\ Len(Cmds) = 1 /\ Cmds[1].id = "create" /\ ~Cmds[1].ok
    /\ Len(events) = 3
    /\ events[1] = RmEvent(TRUE) /\ events[3] = RmEvent(TRUE)
    /\ dir = "absent"

\* The files the claim places before the commit: stylesheet, build config, alias
\* config, lint and test config, ignore file.
EarlyFiles ==
    {"src/index.css", "vite.config.ts", "vite.config.js",
     "tsconfig.json", "tsconfig.app.json", "jsconfig.json",
     ".eslintrc.js", ".prettierrc", "package.json",
     "src/App.test.tsx", "src/App.test.jsx", ".gitignore"}

\* The files the claim places after the commit, for the answers given: pages,
\* layout, state-management modules, entry file, environment sample, README.
LateFiles ==
    LET x == IF isTS(answers) THEN "tsx" ELSE "jsx"
        m == IF isTS(answers) THEN "ts" ELSE "js"
    IN  {"src/pages/Home." \o x, "src/main." \o x, ".env.example", "README.md"}
        \cup (IF answers.router
              THEN {"src/pages/About." \o x, "src/layouts/MainLayout." \o x, "src/App." \o x}
              ELSE {})
        \cup (CASE answers.stateManagement = "Context API" -> {"src/context/AppContext." \o x}
                [] answers.stateManagement = "Zustand" -> {"src/stores/useCounterStore." \o m}
                [] answers.stateManagement = "Redux" ->
                     {"src/stores/counterSlice." \o m, "src/stores/store." \o m}
                [] OTHER -> {})

\* The positions in events of the stage+commit command.
Commits == {c \in 1..Len(events) : events[c].kind = "cmd" /\ events[c].id = "gitCommit"}
WrittenAt(path) == {j \in 1..Len(events) : events[j] = WriteEvent(path)}

\* C16: the stage+commit command runs once; the stylesheet, the build config,
\* the alias config, the lint and test config that apply and the ignore file
\* are written before it, and every folder is created and every page, layout,
\* state-management module, entry file, environment sample and README is written
\* after it; at the end of a successful run with git those later files are all
\* on disk, none of them written before the commit.
C16_CommitBeforeStarterFiles ==
    /\ Cardinality(Commits) <= 1
    /\ Success /\ answers.git => Commits # {}
    /\ \A c \in Commits :
          /\ answers.git
          /\ \A j \in 1..Len(events) :
                /\ events[j].kind = "write" =>
                      IF j < c THEN events[j].id \in EarlyFiles ELSE events[j].id \in LateFiles
                /\ events[j].kind = "mkdir" => j > c
          /\ \A path \in {"src/index.css", ".gitignore",
                            IF isTS(answers) THEN "vite.config.ts" ELSE "vite.config.js",
                            IF isTS(answers) THEN "tsconfig.json" ELSE "jsconfig.json"} :
                \E j \in WrittenAt(path) : j < c
          /\ answers.linting =>
                \A path \in {".eslintrc.js", ".prettierrc", "package.json"} :
                    \E j \in WrittenAt(path) : j < c
          /\ answers.testing =>
                \A path \in {"package.json", "src/App.test." \o ext(answers)} :
                    \E j \in WrittenAt(path) : j < c
          /\ Success =>
                /\ LateFiles \subseteq files
                /\ \A path \in LateFiles : WrittenAt(path) # {} /\ \A j \in WrittenAt(path) : j > c
                /\ Cardinality(dirs) = 7

\* A finished run with git, the router and Redux: the commit precedes the
\* writes of the store modules, the entry file and the README, all on disk.
C16_Witness ==
    /\ Success
    /\ answers.git /\ answers.router /\ answers.stateManagement = "Redux"
    /\ \E c \in Commits :
          /\ events[c].ok
          /\ \E j \in WrittenAt(".gitignore") : j < c
          /\ \E j \in WrittenAt("src/stores/store." \o storeExt(answers)) : j > c
          /\ \E j \in WrittenAt("README.md") : j > c
    /\ {"README.md", ".env.example", "src/main." \o ext(answers)} \subseteq files
====
